---- MODULE Spec2Model ----
(***************************************************************************)
(* Model of scripts/export_layers.py: the batch uploader, the task waiter, *)
(* the collection merger and the asset cleanup of process_layer, driven by *)
(* the top-level loop over the layers, against a remote platform that      *)
(* holds assets and runs export tasks asynchronously.                      *)
(***************************************************************************)
EXTENDS Integers, Sequences, FiniteSets, TLC

(***************************************************************************)
(* Bounds.  batch_size is 500 and merge_batch_size is 100 in the source;   *)
(* the model scales both down so that several batches and several merge    *)
(* groups occur with a handful of rows.                                    *)
(***************************************************************************)
MaxLabel == 4
MaxAssetIds == 5
MaxTasks == 3
MaxHoles == 1
MaxPolygons == 2
batch_size == 2
merge_batch_size == 2

VARIABLES
    pc,              \* position of the local process
    exception,       \* the unhandled error that ended the process, or "none"
    layer_idx,       \* number of layers the top-level loop has started
    layer_name,      \* process_layer argument
    data,            \* process_layer argument: the row index labels of the layer
    num_batches,     \* process_layer local
    i,               \* number of iterations the upload loop has done
    export_tasks,    \* process_layer local: handles of the started batch tasks
    uploaded,        \* log of the upload loop, one entry per iteration
    batch_asset_ids, \* process_layer local
    asset_ids,       \* merge_collections argument
    m_i,             \* merge_collections outer loop index
    merged_fc,       \* merge_collections local, then process_layer local
    merged_fc_complete, \* process_layer local: the features of the filtered collection
    group_unions,    \* number of group unions merge_collections has built
    cross_merges,    \* number of merged_fc.merge(batch_fc) calls
    pair_merges,     \* number of .merge calls in total
    exportTask,      \* process_layer local: handle of the merged export, 0 if none
    task_list,       \* wait_for_tasks argument
    wait_caller,     \* which call of wait_for_tasks is active
    wait_outcome,    \* "none", "waiting", "returned" or "raised"
    deleted,         \* log of the cleanup loop, one entry per attempt
    phases,          \* log of the steps process_layer has entered
    assets,          \* remote: the asset IDs that exist
    tasks,           \* remote: the export tasks, by handle
    geometry,        \* remove_z argument
    sanitized        \* remove_z result

vars == <<pc, exception, layer_idx, layer_name, data, num_batches, i,
          export_tasks, uploaded, batch_asset_ids, asset_ids, m_i, merged_fc,
          merged_fc_complete, group_unions, cross_merges, pair_merges, exportTask, task_list,
          wait_caller, wait_outcome, deleted, phases, assets, tasks,
          geometry, sanitized>>

mergeVars == <<asset_ids, m_i, merged_fc, group_unions, cross_merges, pair_merges>>
waitVars == <<task_list, wait_caller, wait_outcome>>
layerVars == <<layer_idx, layer_name, data, num_batches>>
sanitizerVars == <<geometry, sanitized>>

Min(a, b) == IF a < b THEN a ELSE b

Labels == 0..MaxLabel
\* The top-level list of (layer name, layer data) pairs (lines 183-189), by
\* name; the source enables one entry of five, the model enables two.
layers == <<"industrials", "fires">>

TerminalStates == {"COMPLETED", "FAILED", "CANCELLED"}

(***************************************************************************)
(* Asset IDs: f'projects/ee-ronnyale/assets/{layer_name}_batch_{n}' and    *)
(* f'projects/ee-ronnyale/assets/{layer_name}_merged'.                     *)
(***************************************************************************)
BatchAssetId(name, n) == [layer |-> name, kind |-> "batch", n |-> n]
MergedAssetId(name) == [layer |-> name, kind |-> "merged", n |-> 0]

\* Largest number of row groups a layer of the model can have.
MaxGroups == (MaxLabel \div batch_size) + 1
AllBatchIds == {BatchAssetId(layers[l], n) : l \in 1..Len(layers), n \in 1..MaxGroups}

(***************************************************************************)
(* Remote collections.  A collection reference is the sequence of asset    *)
(* IDs whose features it concatenates; None is Python's None.              *)
(***************************************************************************)
empty_collection == [none |-> FALSE, ids |-> <<>>]

None == [none |-> TRUE, ids |-> <<>>]
FeatureCollection(id) == [none |-> FALSE, ids |-> <<id>>]
merge(a, b) == [none |-> FALSE, ids |-> a.ids \o b.ids]

(***************************************************************************)
(* assets_exists (lines 12-18).  ee.data.getAsset answers for an asset     *)
(* that exists, and raises for an asset that does not exist; it can also   *)
(* raise for any asset (transport error, permission, quota).               *)
(***************************************************************************)
getAsset(asset_id) ==
    IF asset_id \in assets THEN {"found", "raised"} ELSE {"raised"}

assets_exists_true_on_error(outcome) == TRUE

assets_exists(outcome) == outcome = "found"

(***************************************************************************)
(* The row groups of data.groupby(data.index // batch_size) (line 80):     *)
(* one group per distinct value of label // batch_size, in increasing      *)
(* order of that value.                                                    *)
(***************************************************************************)
GroupKeys(d) == {l \div batch_size : l \in d}
GroupKey(d, n) == CHOOSE k \in GroupKeys(d) : Cardinality({j \in GroupKeys(d) : j < k}) = n
GroupRows(d, n) == {l \in d : l \div batch_size = GroupKey(d, n)}

\* math.ceil(len(data) / batch_size) (line 75) and math.ceil(len/100) (line 62)
ceil_div_floor(n, b) == n \div b

ceil_div(n, b) == IF n % b = 0 THEN n \div b ELSE (n \div b) + 1

\* The condition of line 88 on the answer of assets_exists.
export_always(exists) == TRUE

should_export(exists) == ~exists

(***************************************************************************)
(* wait_for_tasks (lines 34-44).  A terminal task state never changes, so  *)
(* one evaluation of all(...) over the list reads the states at once.      *)
(***************************************************************************)
tasks_completed_no_wait(tl) == TRUE

tasks_completed_only_completed(tl) ==
    \A k \in 1..Len(tl) : tasks[tl[k]].state = "COMPLETED"

tasks_completed_any(tl) ==
    \E k \in 1..Len(tl) : tasks[tl[k]].state \in TerminalStates

tasks_completed(tl) ==
    \A k \in 1..Len(tl) : tasks[tl[k]].state \in {"COMPLETED", "FAILED", "CANCELLED"}

failed_tasks_with_cancelled(tl) ==
    SelectSeq(tl, LAMBDA t : tasks[t].state \in {"FAILED", "CANCELLED"})

failed_tasks_none(tl) == <<>>

failed_tasks(tl) == SelectSeq(tl, LAMBDA t : tasks[t].state = "FAILED")

(***************************************************************************)
(* merge_collections (lines 46-64): the union of one group (lines 52-55).  *)
(***************************************************************************)
RECURSIVE batch_union(_)
batch_union(batch_ids) ==
    IF Len(batch_ids) = 1
    THEN FeatureCollection(batch_ids[1])
    ELSE merge(batch_union(SubSeq(batch_ids, 1, Len(batch_ids) - 1)),
               FeatureCollection(batch_ids[Len(batch_ids)]))

batch_slice_overlap(ids, from) ==
    SubSeq(ids, IF from = 0 THEN 1 ELSE from, Min(from + merge_batch_size, Len(ids)))

\* asset_ids[i:i+batch_size] (line 52)
batch_slice(ids, from) ==
    SubSeq(ids, from + 1, Min(from + merge_batch_size, Len(ids)))

(***************************************************************************)
(* Initial state: the process has initialised the client and read the      *)
(* layers; the remote namespace holds any set of batch assets left by      *)
(* earlier runs.                                                           *)
(***************************************************************************)
\* No call of process_layer is active.
NoFrame ==
    /\ layer_name = ""
    /\ data = {}
    /\ num_batches = 0
    /\ i = 0
    /\ export_tasks = <<>>
    /\ uploaded = <<>>
    /\ batch_asset_ids = <<>>
    /\ exportTask = 0
    /\ task_list = <<>>
    /\ wait_caller = "none"
    /\ wait_outcome = "none"
    /\ deleted = <<>>
    /\ phases = <<>>
    /\ merged_fc_complete = <<>>

\* remove_z is not in use (line 181 is disabled).
NoGeometry == [type |-> "none"]

LocalInit ==
    /\ exception = "none"
    /\ geometry = NoGeometry
    /\ sanitized = NoGeometry
    /\ layer_idx = 0
    /\ NoFrame
    /\ tasks = <<>>

MergeInit ==
    /\ m_i = 0
    /\ merged_fc = None
    /\ group_unions = 0
    /\ cross_merges = 0
    /\ pair_merges = 0

\* The entry of merge_collections (lines 47-49).
MergeEntry ==
    /\ m_i' = 0
    /\ merged_fc' = None
    /\ group_unions' = 0
    /\ cross_merges' = 0
    /\ pair_merges' = 0

Init ==
    /\ pc = "main"
    /\ LocalInit
    /\ asset_ids = <<>>
    /\ MergeInit
    /\ assets \in SUBSET AllBatchIds

(***************************************************************************)
(* The top-level loop (lines 192-195) and the entry of process_layer       *)
(* (lines 66-78).  The rows of a layer are any set of index labels: line   *)
(* 175 drops rows without resetting the index.                             *)
(***************************************************************************)
num_batches_of(d) == ceil_div(Cardinality(d), batch_size)

MainNextLayer ==
    /\ pc = "main"
    /\ layer_idx < Len(layers)
    /\ \E d \in SUBSET Labels :
        /\ data' = d
        /\ num_batches' = num_batches_of(d)
    /\ layer_idx' = layer_idx + 1
    /\ layer_name' = layers[layer_idx + 1]
    /\ export_tasks' = <<>>
    /\ phases' = <<"upload">>
    /\ pc' = "upload"
    /\ UNCHANGED merged_fc_complete
    /\ UNCHANGED sanitizerVars
    /\ UNCHANGED <<exception, i, uploaded, batch_asset_ids, mergeVars, exportTask,
                   waitVars, deleted, assets, tasks>>

MainDone ==
    /\ pc = "main"
    /\ layer_idx = Len(layers)
    /\ pc' = "done"
    /\ UNCHANGED merged_fc_complete
    /\ UNCHANGED sanitizerVars
    /\ UNCHANGED <<exception, layerVars, i, export_tasks, uploaded, batch_asset_ids,
                   mergeVars, exportTask, waitVars, deleted, phases, assets, tasks>>

(***************************************************************************)
(* One iteration of the upload loop (lines 80-99).                         *)
(***************************************************************************)
UploadBatch ==
    /\ pc = "upload"
    /\ i < Cardinality(GroupKeys(data))
    /\ LET batch_asset_id == BatchAssetId(layer_name, i + 1) IN
       \E outcome \in getAsset(batch_asset_id) :
          LET exists == assets_exists(outcome)
              submit == should_export(exists)
          IN  /\ tasks' = IF submit
                          THEN Append(tasks, [assetId |-> batch_asset_id, state |-> "RUNNING"])
                          ELSE tasks
              /\ export_tasks' = IF submit
                                 THEN Append(export_tasks, Len(tasks) + 1)
                                 ELSE export_tasks
              /\ uploaded' = Append(uploaded,
                     [asset_id |-> batch_asset_id,
                      rows |-> GroupRows(data, i),
                      existed |-> batch_asset_id \in assets,
                      raised |-> outcome = "raised",
                      exists |-> exists,
                      submitted |-> submit])
    /\ i' = i + 1
    /\ UNCHANGED merged_fc_complete
    /\ UNCHANGED sanitizerVars
    /\ UNCHANGED <<pc, exception, layerVars, batch_asset_ids, mergeVars, exportTask,
                   waitVars, deleted, phases, assets>>

\* The loop is exhausted; wait_for_tasks(export_tasks) is called (line 102).
UploadDone ==
    /\ pc = "upload"
    /\ i = Cardinality(GroupKeys(data))
    /\ task_list' = export_tasks
    /\ wait_caller' = "batches"
    /\ wait_outcome' = "waiting"
    /\ phases' = Append(phases, "wait")
    /\ pc' = "wait_poll"
    /\ UNCHANGED merged_fc_complete
    /\ UNCHANGED sanitizerVars
    /\ UNCHANGED <<exception, layerVars, i, export_tasks, uploaded, batch_asset_ids,
                   mergeVars, exportTask, deleted, assets, tasks>>

(***************************************************************************)
(* wait_for_tasks: the polling loop (lines 35-39) and the check for failed *)
(* tasks (lines 42-44).                                                    *)
(***************************************************************************)
WaitPoll ==
    /\ pc = "wait_poll"
    /\ pc' = IF tasks_completed(task_list) THEN "wait_check" ELSE "wait_sleep"
    /\ UNCHANGED merged_fc_complete
    /\ UNCHANGED sanitizerVars
    /\ UNCHANGED <<exception, layerVars, i, export_tasks, uploaded, batch_asset_ids,
                   mergeVars, exportTask, waitVars, deleted, phases, assets, tasks>>

WaitSleep ==
    /\ pc = "wait_sleep"
    /\ pc' = "wait_poll"
    /\ UNCHANGED merged_fc_complete
    /\ UNCHANGED sanitizerVars
    /\ UNCHANGED <<exception, layerVars, i, export_tasks, uploaded, batch_asset_ids,
                   mergeVars, exportTask, waitVars, deleted, phases, assets, tasks>>

WaitCheckFailed ==
    /\ pc = "wait_check"
    /\ IF failed_tasks(task_list) # <<>>
       THEN /\ wait_outcome' = "raised"
            /\ exception' = "tasks_failed"
            /\ pc' = "error"
            /\ phases' = phases
       ELSE /\ wait_outcome' = "returned"
            /\ exception' = exception
            /\ pc' = IF wait_caller = "batches" THEN "build_ids" ELSE "cleanup"
            /\ phases' = IF wait_caller = "batches" THEN phases
                         ELSE Append(phases, "cleanup")
    /\ UNCHANGED merged_fc_complete
    /\ UNCHANGED sanitizerVars
    /\ UNCHANGED <<layerVars, i, export_tasks, uploaded, batch_asset_ids, mergeVars,
                   exportTask, task_list, wait_caller, deleted, assets, tasks>>

(***************************************************************************)
(* Lines 105-107: the expected batch asset IDs, and the call of            *)
(* merge_collections on them.                                              *)
(***************************************************************************)
expected_ids(name, n) == [k \in 1..n |-> BatchAssetId(name, k)]

BuildIds ==
    /\ pc = "build_ids"
    /\ batch_asset_ids' = expected_ids(layer_name, num_batches)
    /\ asset_ids' = expected_ids(layer_name, num_batches)
    /\ MergeEntry
    /\ phases' = Append(phases, "merge")
    /\ pc' = "merge"
    /\ UNCHANGED merged_fc_complete
    /\ UNCHANGED sanitizerVars
    /\ UNCHANGED <<exception, layerVars, i, export_tasks, uploaded, exportTask,
                   waitVars, deleted, assets, tasks>>

\* One iteration of the outer loop of merge_collections (lines 51-62).
MergeGroup ==
    /\ pc = "merge"
    /\ m_i < Len(asset_ids)
    /\ LET batch_ids == batch_slice(asset_ids, m_i)
           batch_fc == batch_union(batch_ids)
       IN  /\ merged_fc' = IF merged_fc.none THEN batch_fc ELSE merge(merged_fc, batch_fc)
           /\ group_unions' = group_unions + 1
           /\ cross_merges' = IF merged_fc.none THEN cross_merges ELSE cross_merges + 1
           /\ pair_merges' = pair_merges + (Len(batch_ids) - 1)
                                + (IF merged_fc.none THEN 0 ELSE 1)
    /\ m_i' = m_i + merge_batch_size
    /\ UNCHANGED merged_fc_complete
    /\ UNCHANGED sanitizerVars
    /\ UNCHANGED <<pc, exception, layerVars, i, export_tasks, uploaded, batch_asset_ids,
                   asset_ids, exportTask, waitVars, deleted, phases, assets, tasks>>

\* The loop is exhausted; merge_collections returns merged_fc (line 64).
MergeReturn ==
    /\ pc = "merge"
    /\ m_i >= Len(asset_ids)
    /\ pc' = "filter"
    /\ UNCHANGED merged_fc_complete
    /\ UNCHANGED sanitizerVars
    /\ UNCHANGED <<exception, layerVars, i, export_tasks, uploaded, batch_asset_ids,
                   mergeVars, exportTask, waitVars, deleted, phases, assets, tasks>>

(***************************************************************************)
(* The features behind a collection reference.  The geometry of a row is   *)
(* given by its label: the rows with an even label have an empty           *)
(* coordinate list.  The asset of batch n holds one feature per row of the *)
(* n-th row group (lines 81-84), in row order; an asset found by the probe *)
(* holds what this upload writes for that batch.                           *)
(***************************************************************************)
row_coordinates(l) == IF l % 2 = 0 THEN <<>> ELSE <<l, l + 1>>

SortedSeq(S) ==
    [k \in 1..Cardinality(S) |-> CHOOSE l \in S : Cardinality({j \in S : j < l}) = k - 1]

asset_features(asset_id, d) ==
    LET rows == SortedSeq(GroupRows(d, asset_id.n - 1))
    IN  [k \in 1..Len(rows) |-> [row |-> rows[k], coordinates |-> row_coordinates(rows[k])]]

RECURSIVE collection_features(_, _)
collection_features(fc, d) ==
    IF fc.ids = <<>> THEN <<>>
    ELSE collection_features([fc EXCEPT !.ids = SubSeq(fc.ids, 1, Len(fc.ids) - 1)], d)
             \o asset_features(fc.ids[Len(fc.ids)], d)

check_empty_coordinates_inverted(feature) ==
    [row |-> feature.row, coordinates |-> feature.coordinates,
     empty_buffer |-> IF Len(feature.coordinates) = 0 THEN 0 ELSE 1]

\* check_empty_coordinates (lines 28-32): eq answers 1 or 0.
check_empty_coordinates(feature) ==
    [row |-> feature.row, coordinates |-> feature.coordinates,
     empty_buffer |-> IF Len(feature.coordinates) = 0 THEN 1 ELSE 0]

\* fc.map(check_empty_coordinates) and fc.filter(ee.Filter.eq(name, value))
\* (lines 109-110)
map_check_empty(features) ==
    [k \in 1..Len(features) |-> check_empty_coordinates(features[k])]
filter_eq(features, name, value) == SelectSeq(features, LAMBDA ft : ft[name] = value)

(***************************************************************************)
(* Lines 109-110: merged_fc.map(...).filter(...).  On None the attribute   *)
(* access raises.                                                          *)
(***************************************************************************)
Filter ==
    /\ pc = "filter"
    /\ IF merged_fc.none
       THEN /\ exception' = "attribute_error"
            /\ pc' = "error"
            /\ phases' = phases
            /\ merged_fc_complete' = merged_fc_complete
       ELSE /\ exception' = exception
            /\ pc' = "count"
            /\ phases' = Append(phases, "filter")
            /\ merged_fc_complete' =
                   filter_eq(map_check_empty(collection_features(merged_fc, data)),
                             "empty_buffer", 0)
    /\ UNCHANGED sanitizerVars
    /\ UNCHANGED <<layerVars, i, export_tasks, uploaded, batch_asset_ids, mergeVars,
                   exportTask, waitVars, deleted, assets, tasks>>

(***************************************************************************)
(* Line 124: merged_fc.size().getInfo() evaluates the merged collection on *)
(* the platform, which fails when one of its assets does not exist.        *)
(***************************************************************************)
CountFeatures ==
    /\ pc = "count"
    /\ IF \A k \in 1..Len(merged_fc.ids) : merged_fc.ids[k] \in assets
       THEN /\ exception' = exception
            /\ pc' = "export_merged"
       ELSE /\ exception' = "ee_error"
            /\ pc' = "error"
    /\ UNCHANGED merged_fc_complete
    /\ UNCHANGED sanitizerVars
    /\ UNCHANGED <<layerVars, i, export_tasks, uploaded, batch_asset_ids, mergeVars,
                   exportTask, waitVars, deleted, phases, assets, tasks>>

(***************************************************************************)
(* Lines 126-135: the merged export is started and wait_for_tasks is       *)
(* called on it.                                                           *)
(***************************************************************************)
ExportMerged ==
    /\ pc = "export_merged"
    /\ tasks' = Append(tasks, [assetId |-> MergedAssetId(layer_name), state |-> "RUNNING"])
    /\ exportTask' = Len(tasks) + 1
    /\ task_list' = <<Len(tasks) + 1>>
    /\ wait_caller' = "merged"
    /\ wait_outcome' = "waiting"
    /\ phases' = phases \o <<"export", "wait">>
    /\ pc' = "wait_poll"
    /\ UNCHANGED merged_fc_complete
    /\ UNCHANGED sanitizerVars
    /\ UNCHANGED <<exception, layerVars, i, export_tasks, uploaded, batch_asset_ids,
                   mergeVars, deleted, assets>>

(***************************************************************************)
(* The cleanup loop (lines 139-144).  ee.data.deleteAsset removes an asset *)
(* that exists, and raises for one that does not; it can also raise for    *)
(* any asset.  The error is caught and logged.                             *)
(***************************************************************************)
deleteAsset(asset_id) ==
    IF asset_id \in assets THEN {"deleted", "raised"} ELSE {"raised"}

delete_aborts(outcome) == IF outcome = "raised" THEN "error" ELSE "cleanup"

\* Where the loop goes after an attempt: the except clause (lines 143-144)
\* logs the error and the loop continues.
after_delete(outcome) == "cleanup"

DeleteBatchAsset ==
    /\ pc = "cleanup"
    /\ Len(deleted) < Len(batch_asset_ids)
    /\ LET asset_id == batch_asset_ids[Len(deleted) + 1] IN
       \E outcome \in deleteAsset(asset_id) :
          /\ assets' = IF outcome = "deleted" THEN assets \ {asset_id} ELSE assets
          /\ deleted' = Append(deleted, [asset_id |-> asset_id, ok |-> outcome = "deleted"])
          /\ pc' = after_delete(outcome)
    /\ UNCHANGED merged_fc_complete
    /\ UNCHANGED sanitizerVars
    /\ UNCHANGED <<exception, layerVars, i, export_tasks, uploaded, batch_asset_ids,
                   mergeVars, exportTask, waitVars, phases, tasks>>

\* The loop is exhausted; process_layer returns (line 146).  Its frame, the
\* logs of the call and the task handles it held are dropped.
CleanupDone ==
    /\ pc = "cleanup"
    /\ Len(deleted) = Len(batch_asset_ids)
    /\ pc' = "main"
    /\ layer_name' = ""
    /\ data' = {}
    /\ num_batches' = 0
    /\ i' = 0
    /\ export_tasks' = <<>>
    /\ uploaded' = <<>>
    /\ batch_asset_ids' = <<>>
    /\ exportTask' = 0
    /\ task_list' = <<>>
    /\ wait_caller' = "none"
    /\ wait_outcome' = "none"
    /\ deleted' = <<>>
    /\ phases' = <<>>
    /\ asset_ids' = <<>>
    /\ MergeEntry
    /\ tasks' = <<>>
    /\ merged_fc_complete' = <<>>
    /\ UNCHANGED sanitizerVars
    /\ UNCHANGED <<exception, layer_idx, assets>>

(***************************************************************************)
(* The remote platform: a started task ends in one of the terminal states; *)
(* a task that completes has written its asset.                            *)
(***************************************************************************)
TaskProgress ==
    \E t \in 1..Len(tasks), s \in TerminalStates :
        /\ tasks[t].state = "RUNNING"
        /\ tasks' = [tasks EXCEPT ![t].state = s]
        /\ assets' = IF s = "COMPLETED" THEN assets \cup {tasks[t].assetId} ELSE assets
        /\ UNCHANGED merged_fc_complete
        /\ UNCHANGED sanitizerVars
        /\ UNCHANGED <<pc, exception, layerVars, i, export_tasks, uploaded,
                       batch_asset_ids, mergeVars, exportTask, waitVars, deleted, phases>>

Next ==
    \/ MainNextLayer
    \/ MainDone
    \/ UploadBatch
    \/ UploadDone
    \/ WaitPoll
    \/ WaitSleep
    \/ WaitCheckFailed
    \/ BuildIds
    \/ MergeGroup
    \/ MergeReturn
    \/ Filter
    \/ CountFeatures
    \/ ExportMerged
    \/ DeleteBatchAsset
    \/ CleanupDone
    \/ TaskProgress

Spec == Init /\ [][Next]_vars

(***************************************************************************)
(* merge_collections on its own: called on any list of asset IDs.          *)
(***************************************************************************)
RECURSIVE SeqsUpTo(_, _)
SeqsUpTo(S, n) ==
    IF n = 0 THEN {<<>>}
    ELSE LET shorter == SeqsUpTo(S, n - 1)
         IN  shorter \cup {Append(q, x) : q \in shorter, x \in S}

MergeInputIds == {BatchAssetId(1, n) : n \in 1..2}

InitMerge ==
    /\ pc = "merge"
    /\ LocalInit
    /\ asset_ids \in SeqsUpTo(MergeInputIds, MaxAssetIds)
    /\ MergeInit
    /\ assets = {}

NextMerge ==
    \/ MergeGroup
    \/ MergeReturn

SpecMerge == InitMerge /\ [][NextMerge]_vars

(***************************************************************************)
(* wait_for_tasks on its own: called on any list of up to MaxTasks tasks,  *)
(* each in any state.  The local process is sequential and time.sleep      *)
(* returns, so its steps are taken when they can be; the platform is under *)
(* no obligation to finish a task.                                         *)
(***************************************************************************)
TaskStates == {"RUNNING"} \cup TerminalStates

InitWait ==
    /\ pc = "wait_poll"
    /\ exception = "none"
    /\ geometry = NoGeometry
    /\ sanitized = NoGeometry
    /\ layer_idx = 0
    /\ layer_name = ""
    /\ data = {}
    /\ num_batches = 0
    /\ i = 0
    /\ uploaded = <<>>
    /\ batch_asset_ids = <<>>
    /\ exportTask = 0
    /\ deleted = <<>>
    /\ phases = <<>>
    /\ merged_fc_complete = <<>>
    /\ asset_ids = <<>>
    /\ MergeInit
    /\ assets = {}
    /\ \E n \in 0..MaxTasks :
           /\ tasks \in [1..n -> [assetId : {BatchAssetId(layers[1], 1)}, state : TaskStates]]
           /\ export_tasks = [k \in 1..n |-> k]
           /\ task_list = [k \in 1..n |-> k]
    /\ wait_caller = "batches"
    /\ wait_outcome = "waiting"

NextWait ==
    \/ WaitPoll
    \/ WaitSleep
    \/ WaitCheckFailed
    \/ TaskProgress

SpecWait ==
    /\ InitWait
    /\ [][NextWait]_vars
    /\ WF_vars(WaitPoll)
    /\ WF_vars(WaitSleep)
    /\ WF_vars(WaitCheckFailed)

(***************************************************************************)
(* remove_z (lines 20-26) on its own.  A coordinate is a tuple of 2 or 3   *)
(* numbers, a ring a closed sequence of coordinates, and the coordinates   *)
(* of one geometry all have the same number of components.                 *)
(***************************************************************************)
Rings2D == { << <<0, 1>>, <<1, 0>>, <<0, 1>> >>,
             << <<0, 1>>, <<1, 0>>, <<1, 1>>, <<0, 1>> >> }
Rings3D == {[k \in 1..Len(r) |-> Append(r[k], k + 4)] : r \in Rings2D}

PolygonsOver(rings) ==
    {[type |-> "Polygon", exterior |-> r, interiors |-> hs] :
        r \in rings, hs \in SeqsUpTo(rings, MaxHoles)}

MultiPolygonsOver(rings) ==
    {[type |-> "MultiPolygon", geoms |-> ps] :
        ps \in SeqsUpTo(PolygonsOver(rings), MaxPolygons) \ {<<>>}}

LineStringsOver(rings) == {[type |-> "LineString", coords |-> r] : r \in rings}

Geometries ==
    UNION {PolygonsOver(rings) \cup MultiPolygonsOver(rings) \cup LineStringsOver(rings) :
              rings \in {Rings2D, Rings3D}}

\* geometry.has_z
has_z(g) ==
    CASE g.type = "Polygon" -> Len(g.exterior[1]) = 3
      [] g.type = "MultiPolygon" -> \E k \in 1..Len(g.geoms) : Len(g.geoms[k].exterior[1]) = 3
      [] OTHER -> Len(g.coords[1]) = 3

\* shapely closes a ring that is given open.
LinearRing(coords) ==
    IF coords # <<>> /\ coords[1] # coords[Len(coords)]
    THEN Append(coords, coords[1])
    ELSE coords

Polygon(shell, holes) ==
    [type |-> "Polygon",
     exterior |-> LinearRing(shell),
     interiors |-> [k \in 1..Len(holes) |-> LinearRing(holes[k])]]

MultiPolygon(polygons) == [type |-> "MultiPolygon", geoms |-> polygons]

xz_of(coords) == [k \in 1..Len(coords) |-> <<coords[k][1], coords[k][3]>>]

\* [(x, y) for x, y, z in coords]
xy_of(coords) == [k \in 1..Len(coords) |-> <<coords[k][1], coords[k][2]>>]

polygon_without_z(poly) ==
    Polygon(xy_of(poly.exterior),
            [k \in 1..Len(poly.interiors) |-> xy_of(poly.interiors[k])])

remove_z(g) ==
    IF has_z(g)
    THEN IF g.type = "Polygon"
         THEN polygon_without_z(g)
         ELSE IF g.type = "MultiPolygon"
              THEN MultiPolygon([k \in 1..Len(g.geoms) |-> polygon_without_z(g.geoms[k])])
              ELSE g
    ELSE g

InitRemoveZ ==
    /\ pc = "remove_z"
    /\ exception = "none"
    /\ layer_idx = 0
    /\ NoFrame
    /\ tasks = <<>>
    /\ asset_ids = <<>>
    /\ MergeInit
    /\ assets = {}
    /\ geometry \in Geometries
    /\ sanitized = NoGeometry

RemoveZ ==
    /\ pc = "remove_z"
    /\ sanitized' = remove_z(geometry)
    /\ pc' = "sanitized"
    /\ UNCHANGED <<exception, layerVars, i, export_tasks, uploaded, batch_asset_ids,
                   mergeVars, merged_fc_complete, exportTask, waitVars, deleted, phases,
                   assets, tasks, geometry>>

NextRemoveZ == RemoveZ

SpecRemoveZ == InitRemoveZ /\ [][NextRemoveZ]_vars

(***************************************************************************)
(* Properties.                                                             *)
(***************************************************************************)
IsPrefix(p, q) == Len(p) <= Len(q) /\ SubSeq(q, 1, Len(p)) = p

StateOf(t) == tasks[t].state
WaitFinished == wait_outcome \in {"returned", "raised"}
SomeInList(tl, st) == \E k \in 1..Len(tl) : StateOf(tl[k]) = st

\* The expected batch asset IDs of line 105 have been built.
IdsBuilt == Len(phases) >= 3

\* C1: once wait_for_tasks has finished, it has raised if and only if at
\* least one task of its list is FAILED; a list of COMPLETED and CANCELLED
\* tasks, the empty list included, made it return normally.
WaitRaisesIffFailed ==
    WaitFinished =>
        /\ (wait_outcome = "raised") <=> SomeInList(task_list, "FAILED")
        /\ (wait_outcome = "raised") <=> (pc = "error" /\ exception = "tasks_failed")

WaitRaisedOnMixedList ==
    /\ wait_outcome = "raised"
    /\ SomeInList(task_list, "FAILED")
    /\ SomeInList(task_list, "CANCELLED")
    /\ SomeInList(task_list, "COMPLETED")

\* C2: wait_for_tasks has finished, normally or with the failure error, only
\* if every task of its list is COMPLETED, FAILED or CANCELLED.
WaitFinishedOnlyWhenAllTerminal ==
    WaitFinished =>
        \A k \in 1..Len(task_list) :
            StateOf(task_list[k]) \in {"COMPLETED", "FAILED", "CANCELLED"}

WaitReturnedOnSeveralTasks ==
    /\ wait_outcome = "returned"
    /\ Len(task_list) >= 2
    /\ SomeInList(task_list, "CANCELLED")

\* C3 as stated: a batch is submitted if and only if its probe answered
\* "does not exist", and when every batch asset exists no task is submitted.
SubmittedIffProbeAbsent ==
    \A k \in 1..Len(uploaded) : uploaded[k].submitted <=> ~uploaded[k].exists

ExpectedIdsAreCeil ==
    IdsBuilt =>
        /\ Len(batch_asset_ids) * batch_size >= Cardinality(data)
        /\ (Len(batch_asset_ids) - 1) * batch_size < Cardinality(data)
              \/ (Len(batch_asset_ids) = 0 /\ Cardinality(data) = 0)
        /\ \A k \in 1..Len(batch_asset_ids) :
               batch_asset_ids[k] = BatchAssetId(layer_name, k)

ExpectedIdsOfThreeBatches ==
    /\ IdsBuilt
    /\ Len(batch_asset_ids) = 3
    /\ Cardinality(data) % batch_size # 0

\* C5: the batch asset IDs handed to the merge and cleanup steps are exactly
\* the asset IDs the upload loop targeted, and the number of row groups is
\* ceil(N/B).
MergedIdsAreUploadTargets ==
    IdsBuilt =>
        /\ {batch_asset_ids[k] : k \in 1..Len(batch_asset_ids)}
              = {uploaded[k].asset_id : k \in 1..Len(uploaded)}
        /\ Len(uploaded) = Len(batch_asset_ids)

\* C6: merge_collections on K >= 1 asset IDs builds ceil(K/cap) group unions,
\* does ceil(K/cap) - 1 cross-group merges and K - 1 merges in all, and
\* returns the inputs concatenated in input order, each once.
MergeReturned == pc = "filter"

MergeCountsAndResult ==
    (MergeReturned /\ Len(asset_ids) >= 1) =>
        /\ group_unions * merge_batch_size >= Len(asset_ids)
        /\ (group_unions - 1) * merge_batch_size < Len(asset_ids)
        /\ cross_merges = group_unions - 1
        /\ pair_merges = Len(asset_ids) - 1
        /\ merged_fc = [none |-> FALSE, ids |-> asset_ids]

MergeOfSeveralGroups ==
    /\ MergeReturned
    /\ Len(asset_ids) = MaxAssetIds
    /\ group_unions >= 2
    /\ cross_merges >= 1

\* C7: when a batch export task is FAILED, process_layer gets no further
\* than the first wait, which raises: nothing is merged, no merged export is
\* submitted, nothing is deleted and no later layer is started.
BatchFailed == SomeInList(export_tasks, "FAILED")

FailedBatchStopsRun ==
    BatchFailed =>
        /\ pc \in {"upload", "wait_poll", "wait_sleep", "wait_check", "error"}
        /\ pc = "error" => exception = "tasks_failed" /\ wait_outcome = "raised"
        /\ wait_caller \in {"none", "batches"}
        /\ merged_fc = None
        /\ group_unions = 0
        /\ exportTask = 0
        /\ deleted = <<>>
        /\ layer_name = layers[layer_idx]

FailedBatchEndedFirstLayer ==
    /\ BatchFailed
    /\ pc = "error"
    /\ layer_idx = 1
    /\ Len(layers) > 1
    /\ Len(export_tasks) >= 2

\* C8: the cleanup loop attempts the deletion of every ID of the batch asset
\* list once and in list order, goes on after a deletion that failed, and
\* ends with process_layer returning normally.
CleanupStep ==
    pc = "cleanup" =>
        \/ /\ Len(deleted) < Len(batch_asset_ids)
           /\ pc' = "cleanup"
           /\ Len(deleted') = Len(deleted) + 1
           /\ SubSeq(deleted', 1, Len(deleted)) = deleted
           /\ deleted'[Len(deleted')].asset_id = batch_asset_ids[Len(deleted) + 1]
           /\ batch_asset_ids' = batch_asset_ids
           /\ exception' = "none"
        \/ /\ Len(deleted) = Len(batch_asset_ids)
           /\ \A k \in 1..Len(deleted) : deleted[k].asset_id = batch_asset_ids[k]
           /\ pc' = "main"
           /\ exception' = "none"

CleanupAttemptsEveryId == [][CleanupStep]_vars

CleanupWentOnAfterFailure ==
    /\ pc = "cleanup"
    /\ Len(deleted) = Len(batch_asset_ids)
    /\ Len(deleted) >= 2
    /\ ~deleted[1].ok
    /\ deleted[2].ok

\* C9: process_layer enters its steps in the order upload, wait, merge,
\* filter, merged export, wait, cleanup; the merged export exists only when
\* every batch task of the run is terminal, and a deletion has been
\* attempted only when the merged export is COMPLETED or CANCELLED.
StepOrder == <<"upload", "wait", "merge", "filter", "export", "wait", "cleanup">>

StepsInOrder ==
    /\ IsPrefix(phases, StepOrder)
    /\ exportTask # 0 =>
           \A k \in 1..Len(export_tasks) : StateOf(export_tasks[k]) \in TerminalStates
    /\ deleted # <<>> =>
           /\ exportTask # 0
           /\ StateOf(exportTask) \in {"COMPLETED", "CANCELLED"}
           /\ phases = StepOrder

DeletionAfterAllSteps ==
    /\ deleted # <<>>
    /\ Len(export_tasks) >= 2
    /\ phases = StepOrder

\* C10: a probe that raised is answered "does not exist", the run goes on,
\* and an export task for that batch is submitted, also when the asset
\* exists.
HasTaskFor(id) ==
    \E j \in 1..Len(export_tasks) : tasks[export_tasks[j]].assetId = id

ProbeErrorMeansAbsent ==
    /\ \A k \in 1..Len(uploaded) :
           uploaded[k].raised =>
               /\ ~uploaded[k].exists
               /\ uploaded[k].submitted
               /\ HasTaskFor(uploaded[k].asset_id)
    /\ pc = "upload" => exception = "none"

ProbeRaisedOnExistingAsset ==
    \E k \in 1..Len(uploaded) :
        /\ uploaded[k].raised
        /\ uploaded[k].existed
        /\ HasTaskFor(uploaded[k].asset_id)

\* C13: a batch asset deletion has been attempted only when the merged
\* export task is COMPLETED, so the merged asset exists whenever batch assets
\* have been deleted.
DeletionOnlyAfterMergedCompleted ==
    deleted # <<>> =>
        /\ exportTask # 0
        /\ StateOf(exportTask) = "COMPLETED"
        /\ MergedAssetId(layer_name) \in assets

\* C14: when the merger is invoked, every ID of its input names an asset
\* that exists: found by the upload loop, or written by an export task of
\* this run that ended COMPLETED.
FoundByUpload(id) ==
    \E k \in 1..Len(uploaded) : uploaded[k].asset_id = id /\ uploaded[k].exists

CompletedInRun(id) ==
    \E j \in 1..Len(export_tasks) :
        /\ tasks[export_tasks[j]].assetId = id
        /\ StateOf(export_tasks[j]) = "COMPLETED"

MergerInputsExist ==
    (pc = "merge" /\ wait_caller = "batches") =>
        \A k \in 1..Len(asset_ids) :
            /\ asset_ids[k] \in assets
            /\ FoundByUpload(asset_ids[k]) \/ CompletedInRun(asset_ids[k])

\* C16: the upload loop splits the rows into consecutive batches of
\* batch_size rows: every row is in exactly one batch, every batch but the
\* last holds batch_size rows and the last holds the remainder.
UploadLoopDone == layer_name # "" /\ pc # "upload"

BatchesPartitionBySize ==
    UploadLoopDone =>
        /\ \A l \in data :
               Cardinality({k \in 1..Len(uploaded) : l \in uploaded[k].rows}) = 1
        /\ \A k \in 1..Len(uploaded) : uploaded[k].rows \subseteq data
        /\ \A k \in 1..(Len(uploaded) - 1) :
               Cardinality(uploaded[k].rows) = batch_size
        /\ Len(uploaded) >= 1 =>
               Cardinality(uploaded[Len(uploaded)].rows)
                   = Cardinality(data) - (Len(uploaded) - 1) * batch_size

\* C17: on a layer of zero rows process_layer submits no batch export, does
\* not sleep in the first wait, gets None from merge_collections without any
\* merge, and fails at the filter step with no merged export and no deletion.
EmptyLayerRun == layer_name # "" /\ data = {}

EmptyLayerFailsAtFilter ==
    EmptyLayerRun =>
        /\ uploaded = <<>>
        /\ export_tasks = <<>>
        /\ tasks = <<>>
        /\ pc \in {"upload", "wait_poll", "wait_check", "build_ids", "merge",
                   "filter", "error"}
        /\ asset_ids = <<>>
        /\ merged_fc = None
        /\ group_unions = 0
        /\ pair_merges = 0
        /\ exportTask = 0
        /\ deleted = <<>>
        /\ pc = "error" => exception = "attribute_error"

EmptyLayerFailed ==
    /\ EmptyLayerRun
    /\ pc = "error"
    /\ exception = "attribute_error"
    /\ wait_outcome = "returned"

\* C15: under fair polling wait_for_tasks finishes (returns or raises) if and
\* only if every task of its list eventually is COMPLETED, FAILED or
\* CANCELLED; when a task stays non-terminal forever it never finishes.
AllListTerminal ==
    \A k \in 1..Len(task_list) : StateOf(task_list[k]) \in TerminalStates

WaitTerminatesIffTasksEnd ==
    /\ AllListTerminal ~> WaitFinished
    /\ [](WaitFinished => AllListTerminal)
    /\ [][WaitFinished => WaitFinished']_vars

WaitOverFullList ==
    /\ WaitFinished
    /\ Len(task_list) = MaxTasks
    /\ AllListTerminal
    /\ pc \in {"build_ids", "error"}

\* C11: the collection submitted for the merged export holds exactly the
\* features of the merged collection whose coordinate list is not empty, in
\* their order, and so at most as many features as the layer has rows.
MergedFeatures == collection_features(merged_fc, data)
Unflagged(features) ==
    [k \in 1..Len(features) |->
        [row |-> features[k].row, coordinates |-> features[k].coordinates]]

SameRingIn2D(ring, original) ==
    /\ Len(ring) = Len(original)
    /\ \A k \in 1..Len(ring) :
           /\ Len(ring[k]) = 2
           /\ ring[k][1] = original[k][1]
           /\ ring[k][2] = original[k][2]

SamePolygonIn2D(poly, original) ==
    /\ poly.type = "Polygon"
    /\ SameRingIn2D(poly.exterior, original.exterior)
    /\ Len(poly.interiors) = Len(original.interiors)
    /\ \A h \in 1..Len(poly.interiors) :
           SameRingIn2D(poly.interiors[h], original.interiors[h])

RemoveZKeepsShape ==
    pc = "sanitized" =>
        /\ (has_z(geometry) /\ geometry.type = "Polygon")
               => SamePolygonIn2D(sanitized, geometry)
        /\ (has_z(geometry) /\ geometry.type = "MultiPolygon") =>
               /\ sanitized.type = "MultiPolygon"
               /\ Len(sanitized.geoms) = Len(geometry.geoms)
               /\ \A k \in 1..Len(sanitized.geoms) :
                      SamePolygonIn2D(sanitized.geoms[k], geometry.geoms[k])
        /\ ~has_z(geometry) => sanitized = geometry

RemoveZOnMultiPolygonWithHoles ==
    /\ pc = "sanitized"
    /\ geometry.type = "MultiPolygon"
    /\ has_z(geometry)
    /\ Len(geometry.geoms) = MaxPolygons
    /\ Len(geometry.geoms[1].interiors) = MaxHoles
    /\ sanitized # geometry

====
